---------------------------- MODULE Spec2Model ----------------------------
(***************************************************************************)
(* Model of src/suggest.py: the candle series builder (fetch_klines), the  *)
(* indicator calculator, the pattern predicates, the reversal level        *)
(* resolver, the signal decision engine and the suggestion scanner.        *)
(*                                                                         *)
(* Representation of numbers.                                              *)
(*  - A price is an integer count of ticks; a series records the number of *)
(*    decimals of its quotes (tick = 10^-decimals).  Volumes are integers. *)
(*  - Prices of a trade plan (entry, stop_loss, take_profit) are integer   *)
(*    counts of milli-ticks, so that entry*0.995, entry*1.005 and          *)
(*    (entry - sl)*2.2 are exact.                                          *)
(*  - ema7/ema30 are fixed-point values (EmaScale units per tick), the     *)
(*    division of the recurrence rounded down.  A constant series keeps    *)
(*    ema7 = ema30 = close exactly, as pandas does.                        *)
(*  - rsi is NaN or the exact fraction num/den; a comparison with NaN is   *)
(*    false, as in IEEE 754.                                               *)
(*  - Sequences are 1-based: index i of the code is index i+1 here.        *)
(***************************************************************************)
EXTENDS Integers, Sequences, FiniteSets, TLC

VARIABLES pc, arg, ret, limit, pairs, pos, out_messages, fetched

vars == <<pc, arg, ret, limit, pairs, pos, out_messages, fetched>>

(* ------------------------------ constants ------------------------------ *)

DEFAULT_MIN_VOLUME == 40000000

MIN_KLINES == 50

MIN_RR == [num |-> 22, den |-> 10]

EmaScale == 10 ^ 6

Milli == 10 ^ 3

None == [kind |-> "None"]

Max(a, b) == IF a >= b THEN a ELSE b

Min(a, b) == IF a <= b THEN a ELSE b

Abs(a) == IF a >= 0 THEN a ELSE 0 - a

(* ------------------------- candidate ranking --------------------------- *)

\* A symbol is its sequence of tokens, the quote currency last; <<>> is a
\* missing or empty symbol.
endswith(symbol, suffix) == symbol # <<>> /\ symbol[Len(symbol)] = suffix

\* float(v or 0) of a ticker field [kind, val]: kind "num" is a number (or a
\* numeric string), "missing" an absent or null field, "bad" a string float()
\* rejects with ValueError.
float_raises(v) == v.kind = "bad"

float_or_0(v) == IF v.kind = "num" THEN v.val ELSE 0

RECURSIVE insert_desc(_, _)
\* x put into a list sorted by quoteVolume descending, after its equals
insert_desc(sorted, x) ==
    IF sorted = <<>> THEN <<x>>
    ELSE IF Head(sorted).quoteVolume >= x.quoteVolume
         THEN <<Head(sorted)>> \o insert_desc(Tail(sorted), x)
         ELSE <<x>> \o sorted

RECURSIVE sort_desc(_)
\* out.sort(key=quoteVolume, reverse=True): stable
sort_desc(out) ==
    IF out = <<>> THEN <<>>
    ELSE insert_desc(sort_desc(SubSeq(out, 1, Len(out) - 1)), out[Len(out)])

RECURSIVE collect_pairs(_, _, _)
\* the loop `for item in data`: [raised, out]
collect_pairs(data, min_volume_usdt, out) ==
    IF data = <<>> THEN [raised |-> FALSE, out |-> out]
    ELSE LET item == Head(data)
         IN  IF ~endswith(item.symbol, "USDT")
             THEN collect_pairs(Tail(data), min_volume_usdt, out)
             ELSE IF float_raises(item.quoteVolume)
             THEN [raised |-> TRUE, out |-> out]
             ELSE IF float_or_0(item.quoteVolume) >= min_volume_usdt
             THEN IF float_raises(item.lastPrice)
                  THEN [raised |-> TRUE, out |-> out]
                  ELSE collect_pairs(Tail(data), min_volume_usdt,
                           Append(out, [symbol      |-> item.symbol,
                                        quoteVolume |-> float_or_0(item.quoteVolume),
                                        lastPrice   |-> float_or_0(item.lastPrice)]))
             ELSE collect_pairs(Tail(data), min_volume_usdt, out)

\* r is the ticker exchange: [fail, shape, data].  fail: the request, the
\* status check or the JSON decoding raised (caught).  shape "list": data is
\* the list of items; shape "dict": the body is a JSON object (an error
\* envelope), whose iteration yields its keys, and str has no .get.
fetch_high_volume_usdt_pairs(r, min_volume_usdt) ==
    IF r.fail THEN [raised |-> FALSE, out |-> <<>>]
    ELSE IF r.shape = "dict" THEN [raised |-> TRUE, out |-> <<>>]
    ELSE LET c == collect_pairs(r.data, min_volume_usdt, <<>>)
         IN  IF c.raised THEN c ELSE [raised |-> FALSE, out |-> sort_desc(c.out)]

(* ------------------------ candle series builder ------------------------ *)

Reverse(s) == [i \in 1..Len(s) |-> s[Len(s) + 1 - i]]

\* the default index pandas gives the frame: 0, 1, ..., n-1
index(data) == [i \in 1..Len(data) |-> i - 1]

\* r is the klines exchange: [fail, envelope, code, data, numeric, decimals].
\* fail: the request raised; envelope: the body is a dict with code and data;
\* numeric: every price and volume converts to float.
fetch_klines(r) ==
    IF r.fail THEN None
    ELSE IF r.envelope /\ r.code # 200 THEN None
    ELSE IF r.data = <<>> THEN None
    ELSE LET rows == IF index(r.data)[1] > index(r.data)[Len(r.data)]
                     THEN Reverse(r.data) ELSE r.data
         IN  IF ~r.numeric THEN None
             ELSE [kind |-> "df", rows |-> rows, decimals |-> r.decimals]

(* ------------------------- pattern predicates -------------------------- *)

\* df is [rows |-> sequence of candles, decimals |-> d]; at(df, i) is row i.
at(df, i) == df.rows[i]

len(df) == Len(df.rows)

is_bullish_engulfing(df, idx) ==
    IF idx < 2 THEN FALSE
    ELSE LET o  == at(df, idx).open
             c  == at(df, idx).close
             o1 == at(df, idx - 1).open
             c1 == at(df, idx - 1).close
         IN  (c > o) /\ (c1 < o1) /\ (c > o1) /\ (o < c1)

is_hammer(df, idx) ==
    LET o == at(df, idx).open
        c == at(df, idx).close
        h == at(df, idx).high
        l == at(df, idx).low
        body  == Abs(c - o)
        total == h - l
    IN  IF total <= 0 THEN FALSE
        ELSE /\ 100 * body < 35 * total
             /\ 100 * (Min(o, c) - l) < 35 * total
             /\ 100 * (h - Max(o, c)) < 40 * total

(* ------------------------- indicator calculator ------------------------ *)

RECURSIVE ewm(_, _, _)
\* df['close'].ewm(span, adjust=False).mean() at row i
ewm(df, span, i) ==
    IF i = 1 THEN at(df, 1).close * EmaScale
    ELSE (2 * at(df, i).close * EmaScale + (span - 1) * ewm(df, span, i - 1))
             \div (span + 1)

\* delta = close.diff(); row 1 has no delta (NaN), which is neither > 0 nor < 0
gain(df, i) == IF i >= 2 /\ at(df, i).close > at(df, i - 1).close
               THEN at(df, i).close - at(df, i - 1).close ELSE 0

loss(df, i) == IF i >= 2 /\ at(df, i).close < at(df, i - 1).close
               THEN at(df, i - 1).close - at(df, i).close ELSE 0

RECURSIVE sum_gain(_, _, _)
\* the sum of gain over rows lo..hi
sum_gain(df, lo, hi) ==
    IF hi < lo THEN 0 ELSE gain(df, hi) + sum_gain(df, lo, hi - 1)

RECURSIVE sum_loss(_, _, _)
sum_loss(df, lo, hi) ==
    IF hi < lo THEN 0 ELSE loss(df, hi) + sum_loss(df, lo, hi - 1)

RECURSIVE sum_volume(_, _, _)
sum_volume(df, lo, hi) ==
    IF hi < lo THEN 0 ELSE at(df, hi).volume + sum_volume(df, lo, hi - 1)

\* rsi of row i: avg_gain/avg_loss over the last 14 rows (fewer at the start);
\* a zero avg_loss is replaced by NaN, and NaN propagates.  The value read
\* from the frame is a freshly boxed float (obj = "boxed"), never the np.nan
\* object itself.
rsi(df, i) ==
    LET lo == Max(1, i - 13)
        G  == sum_gain(df, lo, i)
        L  == sum_loss(df, lo, i)
    IN  IF L = 0 THEN [nan |-> TRUE, num |-> 0, den |-> 1, obj |-> "boxed"]
        ELSE [nan |-> FALSE, num |-> 100 * G, den |-> G + L, obj |-> "boxed"]

\* vol_ma20 of row i as the fraction sum/cnt
vol_ma20(df, i) ==
    LET lo == Max(1, i - 19)
    IN  [sum |-> sum_volume(df, lo, i), cnt |-> i - lo + 1]

calculate_indicators(df) ==
    [rows     |-> df.rows,
     decimals |-> df.decimals,
     ema7     |-> [i \in 1..len(df) |-> ewm(df, 7, i)],
     ema30    |-> [i \in 1..len(df) |-> ewm(df, 30, i)],
     rsi      |-> [i \in 1..len(df) |-> rsi(df, i)],
     vol_ma20 |-> [i \in 1..len(df) |-> vol_ma20(df, i)]]

(* ----------------------- reversal level resolver ----------------------- *)

bearish_engulfing(df, i) ==
    LET o  == at(df, i).open
        c  == at(df, i).close
        o1 == at(df, i - 1).open
        c1 == at(df, i - 1).close
    IN  (c < o) /\ (c1 > o1) /\ (c < o1) /\ (o > c1)

shooting_star(df, i) ==
    LET o == at(df, i).open
        c == at(df, i).close
        body  == Abs(c - o)
        total == at(df, i).high - at(df, i).low
    IN  /\ total > 0
        /\ 100 * body < 35 * total
        /\ 100 * (at(df, i).high - Max(o, c)) > 60 * total

RECURSIVE min_low(_, _, _)
min_low(df, lo, hi) ==
    IF lo = hi THEN at(df, hi).low ELSE Min(at(df, hi).low, min_low(df, lo, hi - 1))

RECURSIVE max_high(_, _, _)
max_high(df, lo, hi) ==
    IF lo = hi THEN at(df, hi).high ELSE Max(at(df, hi).high, max_high(df, lo, hi - 1))

\* whether the loop returns at row i (the bearish test sits under `if i >= 1`)
reversal_at(df, i, bullish) ==
    IF bullish
    THEN is_hammer(df, i) \/ is_bullish_engulfing(df, i)
    ELSE i >= 2 /\ (bearish_engulfing(df, i) \/ shooting_star(df, i))

RECURSIVE reversal_scan(_, _, _, _)
\* the loop `for i in range(n-1, max(-1, n-lookback-1), -1)` from row i down
\* to row stop; 0 when the loop ends without returning
reversal_scan(df, i, stop, bullish) ==
    IF i < stop THEN 0
    ELSE IF reversal_at(df, i, bullish) THEN i
    ELSE reversal_scan(df, i - 1, stop, bullish)

find_reversal_candle_level(df, lookback, bullish) ==
    LET n     == len(df)
        stop  == Max(0, n - lookback) + 1
        found == reversal_scan(df, n, stop, bullish)
    IN  IF found > 0
        THEN (IF bullish THEN at(df, found).low ELSE at(df, found).high)
        ELSE IF bullish THEN min_low(df, stop, n) ELSE max_high(df, stop, n)

(* ------------------------ signal decision engine ----------------------- *)

\* round(x, 6) of a price x given in milli-ticks: to the nearest multiple of
\* 10^-6, an exact tie to the even multiple.  Quotes of at most 3 decimals
\* make every milli-tick a multiple of 10^-6.
round6(x, decimals) ==
    IF decimals <= 3 THEN x
    ELSE LET unit == 10 ^ (decimals - 3)
             q    == x \div unit
             r    == x % unit
         IN  IF 2 * r > unit \/ (2 * r = unit /\ q % 2 = 1)
             THEN (q + 1) * unit ELSE q * unit

\* `x is np.nan`: object identity with the module-level np.nan
is_np_nan(x) == x.obj = "np.nan"

rsi_gt(x, k) == ~x.nan /\ x.num > k * x.den

rsi_lt(x, k) == ~x.nan /\ x.num < k * x.den

ema_cross_up(ind) ==
    LET n == Len(ind.rows)
    IN  ind.ema7[n - 1] < ind.ema30[n - 1] /\ ind.ema7[n] > ind.ema30[n]

ema_cross_down(ind) ==
    LET n == Len(ind.rows)
    IN  ind.ema7[n - 1] > ind.ema30[n - 1] /\ ind.ema7[n] < ind.ema30[n]

rsi_ok_long(ind) ==
    LET x == ind.rsi[Len(ind.rows)]
    IN  is_np_nan(x) \/ (rsi_gt(x, 20) /\ rsi_lt(x, 70))

rsi_ok_short(ind) ==
    LET x == ind.rsi[Len(ind.rows)]
    IN  is_np_nan(x) \/ (rsi_gt(x, 30) /\ rsi_lt(x, 80))

\* latest['volume'] > 1.5 * latest['vol_ma20']
vol_spike(ind) ==
    LET n == Len(ind.rows)
    IN  2 * ind.rows[n].volume * ind.vol_ma20[n].cnt > 3 * ind.vol_ma20[n].sum

long_condition(ind) ==
    LET n == Len(ind.rows)
    IN  /\ ema_cross_up(ind)
        /\ rsi_ok_long(ind)
        /\ (vol_spike(ind) \/ is_hammer(ind, n) \/ is_bullish_engulfing(ind, n))

\* short_condition without the volume spike overriding a bullish pattern
short_condition_no_override(ind) ==
    LET n == Len(ind.rows)
    IN  /\ ema_cross_down(ind)
        /\ rsi_ok_short(ind)
        /\ (~is_hammer(ind, n) /\ ~is_bullish_engulfing(ind, n))

short_condition(ind) ==
    LET n == Len(ind.rows)
    IN  /\ ema_cross_down(ind)
        /\ rsi_ok_short(ind)
        /\ (vol_spike(ind) \/ (~is_hammer(ind, n) /\ ~is_bullish_engulfing(ind, n)))

long_plan(ind, symbol) ==
    LET entry    == ind.rows[Len(ind.rows)].close * Milli
        level    == find_reversal_candle_level(ind, 30, TRUE) * Milli
        sl_price == IF level >= entry THEN (entry * 995) \div 1000 ELSE level
        tp_price == entry + ((entry - sl_price) * MIN_RR.num) \div MIN_RR.den
    IN  [kind        |-> "signal",
         symbol      |-> symbol,
         direction   |-> "Long",
         entry       |-> round6(entry, ind.decimals),
         stop_loss   |-> round6(sl_price, ind.decimals),
         take_profit |-> round6(tp_price, ind.decimals)]

short_plan(ind, symbol) ==
    LET entry    == ind.rows[Len(ind.rows)].close * Milli
        level    == find_reversal_candle_level(ind, 30, FALSE) * Milli
        sl_price == IF level <= entry THEN (entry * 1005) \div 1000 ELSE level
        tp_price == entry - ((sl_price - entry) * MIN_RR.num) \div MIN_RR.den
    IN  [kind        |-> "signal",
         symbol      |-> symbol,
         direction   |-> "Short",
         entry       |-> round6(entry, ind.decimals),
         stop_loss   |-> round6(sl_price, ind.decimals),
         take_profit |-> round6(tp_price, ind.decimals)]

detect_signal_for_symbol(df, symbol) ==
    LET ind == calculate_indicators(df)
    IN  IF len(df) < MIN_KLINES THEN None
        ELSE IF long_condition(ind) THEN long_plan(ind, symbol)
        ELSE IF short_condition(ind) THEN short_plan(ind, symbol)
        ELSE None

(* ------------------------------- inputs -------------------------------- *)

\* Length of the flat history before the free candles.
BaseLen == 48

\* The quiet market the histories start in.
Quiet == [close |-> 10, volume |-> 10]

TailCloses == {3, 6, 7, 12, 13, 14, 20}

TailShapes == {"body", "hammer", "star", "gap"}

TailVolumes == {Quiet.volume, 2 * Quiet.volume}

TailLens == 1..2

PriceDecimals == {3, 7}

\* One candle closing at c after a candle that closed at prev.
Candle(shape, c, prev, v) ==
    LET o == CASE shape = "body"   -> prev
               [] shape = "hammer" -> c - 1
               [] shape = "star"   -> c + 1
               [] shape = "gap"    -> IF c > prev THEN prev - 1 ELSE prev + 1
        h == CASE shape = "hammer" -> c + 1
               [] shape = "star"   -> c + 5
               [] OTHER            -> Max(o, c)
        l == CASE shape = "hammer" -> c - 2
               [] OTHER            -> Min(o, c)
    IN  [timestamp |-> 0, open |-> o, high |-> h, low |-> l, close |-> c, volume |-> v]

RECURSIVE Extend(_, _)
\* rows followed by the candles that specs (shape, close, volume) describe
Extend(rows, specs) ==
    IF specs = <<>> THEN rows
    ELSE LET prev == IF rows = <<>> THEN specs[1].close ELSE rows[Len(rows)].close
         IN  Extend(Append(rows, Candle(specs[1].shape, specs[1].close, prev, specs[1].volume)),
                    Tail(specs))

Run(shape, c, count) == [i \in 1..count |-> [shape |-> shape, close |-> c, volume |-> Quiet.volume]]

Stamp(rows) == [i \in 1..Len(rows) |-> [rows[i] EXCEPT !.timestamp = i]]

\* The histories before the free candles: flat ones, a drop followed by a
\* flat stretch of 15 candles, and a flat one ending in a reversal candle.
Bases ==
    { Run("body", Quiet.close, BaseLen - 1),
      Run("body", Quiet.close, BaseLen),
      Run("body", Quiet.close, BaseLen - 14) \o Run("body", 8, 15),
      Run("body", Quiet.close, BaseLen - 23) \o Run("body", 20, 8) \o Run("body", 14, 16),
      Run("body", Quiet.close, BaseLen - 1) \o Run("hammer", 20, 1),
      Run("body", Quiet.close, BaseLen - 1) \o Run("star", 1, 1) }

TailSpecs ==
    UNION { [1..k -> [shape : TailShapes, close : TailCloses, volume : TailVolumes]] : k \in TailLens }

DetectInputs ==
    { [kind |-> "df", rows |-> Stamp(Extend(<<>>, b \o t)), decimals |-> d] :
        b \in Bases, t \in TailSpecs, d \in PriceDecimals }

(* ------------------------- detection on its own ------------------------ *)

InitDetect ==
    /\ pc = "detect"
    /\ arg \in DetectInputs
    /\ ret = None
    /\ limit = 0
    /\ pairs = <<>>
    /\ pos = 0
    /\ out_messages = <<>>
    /\ fetched = <<>>

Detect ==
    /\ pc = "detect"
    /\ ret' = detect_signal_for_symbol(arg, <<"A", "USDT">>)
    /\ pc' = "detected"
    /\ UNCHANGED <<arg, limit, pairs, pos, out_messages, fetched>>

NextDetect == Detect

SpecDetect == InitDetect /\ [][NextDetect]_vars

(* The indicator values and patterns at the latest candle of the input, as
   the properties below name them. *)
Ind == calculate_indicators(arg)

Latest == len(arg)

LatestRsi == Ind.rsi[Latest]

CrossUp ==
    Ind.ema7[Latest - 1] < Ind.ema30[Latest - 1] /\ Ind.ema7[Latest] > Ind.ema30[Latest]

CrossDown ==
    Ind.ema7[Latest - 1] > Ind.ema30[Latest - 1] /\ Ind.ema7[Latest] < Ind.ema30[Latest]

VolSpike ==
    2 * at(arg, Latest).volume * Ind.vol_ma20[Latest].cnt > 3 * Ind.vol_ma20[Latest].sum

RsiWithin(lo, hi) ==
    /\ ~LatestRsi.nan
    /\ LatestRsi.num > lo * LatestRsi.den
    /\ LatestRsi.num < hi * LatestRsi.den

BullishAtLatest == is_hammer(arg, Latest) \/ is_bullish_engulfing(arg, Latest)

Direction == IF ret.kind = "signal" THEN ret.direction ELSE "None"

PricesAtLeast(k) ==
    \A i \in 1..Latest :
        /\ at(arg, i).open >= k
        /\ at(arg, i).high >= k
        /\ at(arg, i).low >= k
        /\ at(arg, i).close >= k

C2_UndefinedRsiPasses ==
    (pc = "detected" /\ Latest >= 50 /\ LatestRsi.nan /\ VolSpike) =>
        /\ CrossUp => Direction = "Long"
        /\ (CrossDown /\ ~CrossUp) => Direction = "Short"

\* C4: over candles with non-negative prices every emitted signal reports
\* take_profit > entry > stop_loss (Long) or stop_loss > entry > take_profit
\* (Short), the fields being those rounded to 6 decimals.
C4_PlanOrdered ==
    (pc = "detected" /\ ret.kind = "signal" /\ PricesAtLeast(0)) =>
        IF ret.direction = "Long"
        THEN ret.take_profit > ret.entry /\ ret.entry > ret.stop_loss
        ELSE ret.stop_loss > ret.entry /\ ret.entry > ret.take_profit

\* C10: over candles with strictly positive prices every Short signal reports
\* a strictly positive take_profit.
C10_ShortTargetPositive ==
    (pc = "detected" /\ ret.kind = "signal" /\ ret.direction = "Short" /\ PricesAtLeast(1)) =>
        ret.take_profit > 0

(* ---------------------- reversal level on its own ---------------------- *)

MaxRows == 3

MaxLookback == 3

RevCloses == {7, 12}

RevSpecs ==
    UNION { [1..k -> [shape : TailShapes, close : RevCloses, volume : {Quiet.volume}]] :
              k \in 1..MaxRows }

RevInputs ==
    { [df       |-> [kind |-> "df", rows |-> Stamp(Extend(<<>>, t)), decimals |-> 3],
       lookback |-> k,
       bullish  |-> b] : t \in RevSpecs, k \in 1..MaxLookback, b \in BOOLEAN }

InitReversal ==
    /\ pc = "resolve"
    /\ arg \in RevInputs
    /\ ret = None
    /\ limit = 0
    /\ pairs = <<>>
    /\ pos = 0
    /\ out_messages = <<>>
    /\ fetched = <<>>

Resolve ==
    /\ pc = "resolve"
    /\ ret' = [kind  |-> "level",
               value |-> find_reversal_candle_level(arg.df, arg.lookback, arg.bullish)]
    /\ pc' = "resolved"
    /\ UNCHANGED <<arg, limit, pairs, pos, out_messages, fetched>>

NextReversal == Resolve

SpecReversal == InitReversal /\ [][NextReversal]_vars

\* The last min(lookback, n) rows of the input.
Window ==
    LET n == len(arg.df)
    IN  (n - Min(arg.lookback, n) + 1)..n

Qualifies(i) ==
    IF arg.bullish
    THEN is_hammer(arg.df, i) \/ is_bullish_engulfing(arg.df, i)
    ELSE (i >= 2 /\ bearish_engulfing(arg.df, i)) \/ shooting_star(arg.df, i)

\* C9: the level is the low (bullish) or high (bearish) of the newest
\* qualifying candle among the last min(lookback, n), a shooting star needing
\* no previous candle; without a qualifying candle it is the minimum low
\* (bullish) or maximum high (bearish) of those candles.
C9_ReversalLevel ==
    pc = "resolved" =>
        LET hits == { i \in Window : Qualifies(i) }
            newest == CHOOSE i \in hits : \A j \in hits : j <= i
        IN  IF hits # {}
            THEN ret.value = IF arg.bullish THEN at(arg.df, newest).low
                             ELSE at(arg.df, newest).high
            ELSE IF arg.bullish
            THEN /\ \E i \in Window : ret.value = at(arg.df, i).low
                 /\ \A i \in Window : ret.value <= at(arg.df, i).low
            ELSE /\ \E i \in Window : ret.value = at(arg.df, i).high
                 /\ \A i \in Window : ret.value >= at(arg.df, i).high

(* ---------------------- series builder on its own ---------------------- *)

MaxStamp == 3

RECURSIVE Ascending(_)
\* the members of a set of numbers in ascending order
Ascending(S) ==
    IF S = {} THEN <<>>
    ELSE LET m == CHOOSE x \in S : \A y \in S : x <= y
         IN  <<m>> \o Ascending(S \ {m})

\* The candle stamped t.
Stamped(t) ==
    [timestamp |-> t, open |-> Quiet.close + t, high |-> Quiet.close + t,
     low |-> Quiet.close + t, close |-> Quiet.close + t, volume |-> Quiet.volume]

\* Payloads: nothing, or candles oldest-first, or the same newest-first.
Payloads ==
    LET asc == { [i \in 1..Cardinality(T) |-> Stamped(Ascending(T)[i])] :
                   T \in SUBSET (1..MaxStamp) }
    IN  asc \cup { Reverse(d) : d \in asc }

KlinesInputs ==
    [fail : BOOLEAN, envelope : BOOLEAN, code : {200, 500}, data : Payloads,
     numeric : BOOLEAN, decimals : {3}]

InitKlines ==
    /\ pc = "fetch"
    /\ arg \in KlinesInputs
    /\ ret = None
    /\ limit = 0
    /\ pairs = <<>>
    /\ pos = 0
    /\ out_messages = <<>>
    /\ fetched = <<>>

FetchKlines ==
    /\ pc = "fetch"
    /\ ret' = fetch_klines(arg)
    /\ pc' = "fetched"
    /\ UNCHANGED <<arg, limit, pairs, pos, out_messages, fetched>>

NextKlines == FetchKlines

SpecKlines == InitKlines /\ [][NextKlines]_vars

SortedByTime(rows) ==
    \A i \in 1..Len(rows) - 1 : rows[i].timestamp < rows[i + 1].timestamp

\* C3: a series that is returned is ascending by timestamp: a newest-first
\* payload comes back reversed, an oldest-first one unchanged.
C3_SeriesAscending ==
    (pc = "fetched" /\ ret # None) =>
        /\ SortedByTime(ret.rows)
        /\ SortedByTime(arg.data) => ret.rows = arg.data
        /\ SortedByTime(Reverse(arg.data)) => ret.rows = Reverse(arg.data)

(* -------------------------- suggestion scanner ------------------------- *)

MaxPairs == 3

MaxLimit == 2

Num(v) == [kind |-> "num", val |-> v]

Missing == [kind |-> "missing", val |-> 0]

Bad == [kind |-> "bad", val |-> 0]

\* Ticker items: pairs above the threshold (two of equal volume), one at the
\* threshold, one below it, one without quoteVolume, one quoted in another
\* currency, one without symbol, one with a non-numeric quoteVolume and one
\* with a non-numeric lastPrice.
TickerItems ==
    { [symbol |-> <<"A", "USDT">>, quoteVolume |-> Num(50000000), lastPrice |-> Num(1)],
      [symbol |-> <<"B", "USDT">>, quoteVolume |-> Num(60000000), lastPrice |-> Num(1)],
      [symbol |-> <<"C", "USDT">>, quoteVolume |-> Num(50000000), lastPrice |-> Missing],
      [symbol |-> <<"D", "USDT">>, quoteVolume |-> Num(DEFAULT_MIN_VOLUME), lastPrice |-> Num(1)],
      [symbol |-> <<"E", "USDT">>, quoteVolume |-> Num(DEFAULT_MIN_VOLUME - 1), lastPrice |-> Bad],
      [symbol |-> <<"F", "USDT">>, quoteVolume |-> Missing, lastPrice |-> Num(1)],
      [symbol |-> <<"G", "BTC">>, quoteVolume |-> Num(90000000), lastPrice |-> Num(1)],
      [symbol |-> <<>>, quoteVolume |-> Bad, lastPrice |-> Bad],
      [symbol |-> <<"H", "USDT">>, quoteVolume |-> Bad, lastPrice |-> Num(1)],
      [symbol |-> <<"I", "USDT">>, quoteVolume |-> Num(70000000), lastPrice |-> Bad] }

TickerExchanges ==
    { [fail |-> TRUE, shape |-> "list", data |-> <<>>],
      [fail |-> FALSE, shape |-> "dict", data |-> <<>>] }
    \cup
    { [fail |-> FALSE, shape |-> "list", data |-> d] :
        d \in UNION { [1..k -> TickerItems] : k \in 0..MaxPairs } }

Series(base, tail) ==
    [kind |-> "df", rows |-> Stamp(Extend(<<>>, base \o tail)), decimals |-> 3]

Free(shape, c, v) == <<[shape |-> shape, close |-> c, volume |-> v]>>

Ok(df) ==
    [fail |-> FALSE, envelope |-> TRUE, code |-> 200, data |-> df.rows,
     numeric |-> TRUE, decimals |-> df.decimals]

\* What a candidate's klines request can bring: a failure, a non-success
\* envelope, 49 candles, 50 flat candles, 50 candles ending in a cross-up
\* with a volume spike, 50 candles ending in a cross-down.
ScanExchanges ==
    { [Ok(Series(Run("body", Quiet.close, 1), <<>>)) EXCEPT !.fail = TRUE],
      [Ok(Series(Run("body", Quiet.close, 1), <<>>)) EXCEPT !.code = 500],
      Ok(Series(Run("body", Quiet.close, MIN_KLINES - 1), <<>>)),
      Ok(Series(Run("body", Quiet.close, MIN_KLINES), <<>>)),
      Ok(Series(Run("body", Quiet.close, MIN_KLINES - 2),
                Free("body", 7, Quiet.volume) \o Free("body", 12, 2 * Quiet.volume))),
      Ok(Series(Run("body", Quiet.close, MIN_KLINES - 2),
                Free("body", 14, Quiet.volume) \o Free("body", 7, Quiet.volume))) }

ScanOutcomes ==
    { [exchange |-> r, raises |-> FALSE] : r \in ScanExchanges }
    \cup { [exchange |-> r, raises |-> TRUE] : r \in {Ok(Series(Run("body", Quiet.close, 1), <<>>))} }

\* The message of a signal for the pair p: the fields the format string
\* interpolates, volume_24h being the pair's quoteVolume.
format_message(sig, p) ==
    [symbol      |-> sig.symbol,
     direction   |-> sig.direction,
     entry       |-> sig.entry,
     stop_loss   |-> sig.stop_loss,
     take_profit |-> sig.take_profit,
     volume_24h  |-> p.quoteVolume]

\* scan_step with an exception ending the loop instead of the iteration
scan_step_stops_on_error(p, x, out, cap) ==
    IF x.raises THEN [out |-> out, brk |-> TRUE]
    ELSE LET df == fetch_klines(x.exchange)
         IN  IF df = None THEN [out |-> out, brk |-> FALSE]
             ELSE IF len(df) < MIN_KLINES THEN [out |-> out, brk |-> FALSE]
             ELSE LET sig == detect_signal_for_symbol(df, p.symbol)
                  IN  IF sig = None THEN [out |-> out, brk |-> FALSE]
                      ELSE LET grown == Append(out, format_message(sig, p))
                           IN  [out |-> grown, brk |-> Len(grown) >= cap]

\* One iteration of `for p in pairs`.  x is [exchange, raises]: the klines
\* exchange of the candidate, and whether the body of the try raises.
\* The result is the list of messages and whether the loop breaks.
scan_step(p, x, out, cap) ==
    IF x.raises THEN [out |-> out, brk |-> FALSE]
    ELSE LET df == fetch_klines(x.exchange)
         IN  IF df = None THEN [out |-> out, brk |-> FALSE]
             ELSE IF len(df) < MIN_KLINES THEN [out |-> out, brk |-> FALSE]
             ELSE LET sig == detect_signal_for_symbol(df, p.symbol)
                  IN  IF sig = None THEN [out |-> out, brk |-> FALSE]
                      ELSE LET grown == Append(out, format_message(sig, p))
                           IN  [out |-> grown, brk |-> Len(grown) >= cap]

Init ==
    /\ pc = "start"
    /\ arg \in TickerExchanges
    /\ limit \in 0..MaxLimit
    /\ ret = None
    /\ pairs = <<>>
    /\ pos = 0
    /\ out_messages = <<>>
    /\ fetched = <<>>

\* get_trade_suggestions up to the loop: the pairs are fetched and ranked; an
\* exception of fetch_high_volume_usdt_pairs is not caught.
Start ==
    /\ pc = "start"
    /\ LET r == fetch_high_volume_usdt_pairs(arg, DEFAULT_MIN_VOLUME)
       IN  /\ pairs' = IF r.raised THEN pairs ELSE r.out
           /\ IF r.raised
              THEN pc' = "raised" /\ ret' = ret /\ pos' = pos
              ELSE IF r.out = <<>>
              THEN pc' = "returned" /\ ret' = [kind |-> "list", items |-> <<>>] /\ pos' = pos
              ELSE pc' = "loop" /\ ret' = ret /\ pos' = 1
    /\ UNCHANGED <<arg, limit, out_messages, fetched>>

\* Whether the outcome x is a failure: the processing raises, no series is
\* built, or the series has fewer than 50 candles.
Failed(x) ==
    \/ x.raises
    \/ fetch_klines(x.exchange) = None
    \/ len(fetch_klines(x.exchange)) < MIN_KLINES

\* One iteration of the loop on the candidate at pos; the function returns
\* when the loop breaks or the candidates are exhausted.  fetched records
\* each candidate whose klines were requested, with the number of messages
\* held at that moment, whether the outcome was a failure and whether the
\* candidate added a message.
Iterate ==
    /\ pc = "loop"
    /\ \E x \in ScanOutcomes :
         LET st == scan_step(pairs[pos], x, out_messages, limit)
         IN  /\ out_messages' = st.out
             /\ fetched' = Append(fetched, [pos    |-> pos,
                                            held   |-> Len(out_messages),
                                            failed |-> Failed(x),
                                            added  |-> st.out # out_messages])
             /\ IF st.brk \/ pos = Len(pairs)
                THEN pc' = "returned" /\ pos' = pos
                     /\ ret' = [kind |-> "list", items |-> st.out]
                ELSE pc' = "loop" /\ pos' = pos + 1 /\ ret' = ret
    /\ UNCHANGED <<arg, limit, pairs>>

Next == Start \/ Iterate

Spec == Init /\ [][Next]_vars

\* C1: the list returned never has more entries than the cap.
C1_AtMostCap == pc = "returned" => Len(ret.items) <= limit

\* C5: get_trade_suggestions never ends with an exception.
C5_NeverRaises == pc # "raised"

\* C6: a candidate whose klines fail, bring no series or fewer than 50
\* candles, or whose processing raises, adds no message and does not end the
\* scan: the candidates are taken one after the other in ranked order, the
\* scan ends on a candidate that added nothing only when it is the last one,
\* and a result shorter than the cap means that every candidate was
\* evaluated.
C6_ScanContinues ==
    /\ \A i \in 1..Len(fetched) : fetched[i].pos = i
    /\ \A i \in 1..Len(fetched) : fetched[i].failed => ~fetched[i].added
    /\ Len(out_messages) = Cardinality({ i \in 1..Len(fetched) : fetched[i].added })
    /\ (pc = "returned" /\ fetched # <<>> /\ ~fetched[Len(fetched)].added)
          => Len(fetched) = Len(pairs)
    /\ (pc = "returned" /\ pairs # <<>> /\ Len(ret.items) < limit)
          => Len(fetched) = Len(pairs)

\* A scan of three candidates, the first and the third failing, that
\* returned fewer messages than the cap.
C6_Witness ==
    /\ pc = "returned"
    /\ Len(pairs) = 3
    /\ Len(fetched) = 3
    /\ fetched[1].failed /\ fetched[2].added /\ fetched[3].failed
    /\ Len(ret.items) < limit

\* C7: the candidates are evaluated in descending order of volume, no klines
\* are requested once the messages held have reached the cap, and the
\* messages returned are in descending order of volume.
C7_RankedEarlyExit ==
    /\ \A i \in 1..Len(fetched) : fetched[i].pos = i
    /\ \A i \in 1..Len(pairs) - 1 : pairs[i].quoteVolume >= pairs[i + 1].quoteVolume
    /\ \A i \in 1..Len(fetched) : fetched[i].held < limit
    /\ pc = "returned" =>
         \A i \in 1..Len(ret.items) - 1 :
             ret.items[i].volume_24h >= ret.items[i + 1].volume_24h

=============================================================================
